---- MODULE Spec2Model ----
(***************************************************************************)
(* CrossGPU core: the Tensor container (core/src/tensor.rs) and the        *)
(* quantization engine (core/src/quantization.rs), driven the way the      *)
(* integration tests and the examples drive them: construct a tensor,      *)
(* reshape it, quantize it, dequantize the result.                         *)
(*                                                                         *)
(* Numbers.  i8/u8/i32 keep their width.  An f32 is its IEEE-754 binary32  *)
(* bit pattern, stored little-endian in the tensor's byte buffer as        *)
(* bytemuck::cast_slice lays it out; a decoded float is a record           *)
(* [cls, neg, m, e] standing for (-1)^neg * m * 2^e.  The scale of a       *)
(* QuantParams is an integer-valued float (1.0, 2.0, ...).  Division by    *)
(* the scale is computed exactly; the model's inputs keep |x / scale|      *)
(* either below 2^22 (where the f32 quotient rounds to the same integer    *)
(* as the exact one) or saturating.  Shape products stay far below the     *)
(* usize range.                                                            *)
(***************************************************************************)
EXTENDS Integers, Sequences, FiniteSets, TLC

VARIABLES
    tensor,   \* the host tensor the caller holds (NoTensor when the constructor failed)
    call,     \* the last library call: operation, arguments, input tensor, result
    target,   \* the build target of the program: architecture, operating system
    device,   \* the GpuDevice the caller holds
    gpu,      \* the GpuTensor the caller holds
    dcall,    \* the last call on a device or of the device selection
    threads,  \* the threads sharing the device: position, arguments, results
    queue     \* the work dispatched to the device and not yet completed

vars == <<tensor, call, target, device, gpu, dcall, threads, queue>>
\* the variables the tensor and quantization calls leave alone
gpuvars == <<target, device, gpu, dcall, threads, queue>>

(***************************************************************************)
(* Bounds of the model                                                     *)
(***************************************************************************)
MaxDim == 3       \* largest dimension size, and largest element count
MaxBytes == 4     \* longest raw byte string handed to from_data
NumThreads == 2   \* how many threads share one device
MaxChain == 1     \* how often a test takes the result of a call as its next tensor

(***************************************************************************)
(* Machine integers                                                        *)
(***************************************************************************)
I32Max == 2147483647
I32Min == -I32Max - 1

RECURSIVE Pow2(_)
Pow2(n) == IF n = 0 THEN 1 ELSE 2 * Pow2(n - 1)

\* number of significant bits of a natural number
RECURSIVE BitLen(_)
BitLen(n) == IF n = 0 THEN 0 ELSE 1 + BitLen(n \div 2)

RECURSIVE BitAnd(_, _)
BitAnd(a, b) ==
    IF a = 0 \/ b = 0 THEN 0
    ELSE (IF a % 2 = 1 /\ b % 2 = 1 THEN 1 ELSE 0) + 2 * BitAnd(a \div 2, b \div 2)

RECURSIVE BitOr(_, _)
BitOr(a, b) ==
    IF a = 0 THEN b
    ELSE IF b = 0 THEN a
    ELSE (IF a % 2 = 1 \/ b % 2 = 1 THEN 1 ELSE 0) + 2 * BitOr(a \div 2, b \div 2)

\* i8 <-> u8 reinterpretation (`as u8`, `as i8`, bytemuck::cast_slice on i8)
U8OfI8(x) == (x + 256) % 256
I8OfU8(b) == IF b >= 128 THEN b - 256 ELSE b

\* i8 operators: `&`, `|`, `<<` (bits shifted out are dropped)
AndI8(x, y) == I8OfU8(BitAnd(U8OfI8(x), U8OfI8(y)))
OrI8(x, y) == I8OfU8(BitOr(U8OfI8(x), U8OfI8(y)))
ShlI8(x, k) == I8OfU8((U8OfI8(x) * Pow2(k)) % 256)

\* i32::clamp
clamp(x, lo, hi) == IF x < lo THEN lo ELSE IF x > hi THEN hi ELSE x

Builds == {"debug", "release"}

\* i32 `+` and `-`: an overflow panics with overflow checks on (debug) and wraps
\* without them (release).  [ovf, val]; val is the wrapped value.
AddI32(a, b) ==
    IF a > 0 /\ b > 0 /\ a > I32Max - b
        THEN [ovf |-> TRUE, val |-> (a - I32Max - 1) + (b - I32Max - 1)]
    ELSE IF a < 0 /\ b < 0 /\ a < I32Min - b
        THEN [ovf |-> TRUE, val |-> (a + I32Max + 1) + (b + I32Max + 1)]
    ELSE [ovf |-> FALSE, val |-> a + b]

SubI32(a, b) ==
    IF b = I32Min
        THEN (IF a >= 0 THEN [ovf |-> TRUE, val |-> a + I32Min]
              ELSE [ovf |-> FALSE, val |-> (a + I32Max) + 1])
    ELSE AddI32(a, -b)

(***************************************************************************)
(* f32: IEEE-754 binary32                                                  *)
(***************************************************************************)
Fin(neg, m, e) == [cls |-> "fin", neg |-> neg, m |-> m, e |-> e]
Inf(neg) == [cls |-> "inf", neg |-> neg, m |-> 0, e |-> 0]
NaN == [cls |-> "nan", neg |-> FALSE, m |-> 0, e |-> 0]

\* round m * 2^e to a 24-bit significand, ties to even
RoundTo24(neg, m, e) ==
    IF m < 16777216 THEN Fin(neg, m, e)
    ELSE LET k == BitLen(m) - 24
             q == m \div Pow2(k)
             r == m % Pow2(k)
             half == Pow2(k - 1)
             up == r > half \/ (r = half /\ q % 2 = 1)
             q1 == IF up THEN q + 1 ELSE q
         IN  IF q1 = 16777216 THEN Fin(neg, 8388608, e + k + 1) ELSE Fin(neg, q1, e + k)

\* `v as f32` for an i32 v
F32OfI32(v) ==
    IF v = I32Min THEN Fin(TRUE, 8388608, 8)
    ELSE RoundTo24(v < 0, IF v < 0 THEN -v ELSE v, 0)

\* `x * scale` for a finite x and an integer-valued scale
F32Mul(x, scale) ==
    LET s == IF scale < 0 THEN -scale ELSE scale
    IN  RoundTo24(x.neg # (scale < 0), x.m * s, x.e)

\* the four little-endian bytes of a float (bytemuck::cast_slice::<f32, u8>)
F32Bytes(x) ==
    LET sign == IF x.neg THEN 128 ELSE 0
    IN  IF x.cls = "nan" THEN <<0, 0, 192, 127>>
        ELSE IF x.cls = "inf" THEN <<0, 0, 128, sign + 127>>
        ELSE IF x.m = 0 THEN <<0, 0, 0, sign>>
        ELSE LET k == 24 - BitLen(x.m)
                 normal == (x.e - k) + 150 >= 1
                 field == IF normal THEN (x.e - k) + 150 ELSE 0
                 mant == IF normal THEN x.m * Pow2(k) - 8388608
                         ELSE x.m * Pow2(x.e + 149)
             IN  <<mant % 256,
                   (mant \div 256) % 256,
                   (mant \div 65536) + 128 * (field % 2),
                   (field \div 2) + sign>>

\* the float held in four little-endian bytes (bytemuck::cast_slice::<u8, f32>)
F32OfBytes(b) ==
    LET neg == b[4] >= 128
        field == (b[4] % 128) * 2 + (b[3] \div 128)
        mant == (b[3] % 128) * 65536 + b[2] * 256 + b[1]
    IN  IF field = 255 THEN (IF mant = 0 THEN Inf(neg) ELSE NaN)
        ELSE IF field = 0 THEN Fin(neg, mant, -149)
        ELSE Fin(neg, 8388608 + mant, field - 150)

RECURSIVE FlattenF32(_)
FlattenF32(xs) == IF xs = <<>> THEN <<>> ELSE F32Bytes(Head(xs)) \o FlattenF32(Tail(xs))

\* a byte buffer read as floats: Len(bytes) \div 4 of them
FloatsOf(bytes) ==
    [i \in 1..(Len(bytes) \div 4) |-> F32OfBytes(SubSeq(bytes, 4 * i - 3, 4 * i))]

\* floor and remainder of (q * s + r) * 2^e / s (e >= 0, s > 0, r < s); q = -1 once
\* the quotient has left the i32 range
RECURSIVE ShiftDiv(_, _, _, _)
ShiftDiv(q, r, e, s) ==
    IF e = 0 THEN [q |-> q, r |-> r]
    ELSE IF q > 1073741823 THEN [q |-> -1, r |-> 0]
    ELSE ShiftDiv(2 * q + ((2 * r) \div s), (2 * r) % s, e - 1, s)

\* |x / scale| rounded half away from zero, for finite x and s = |scale| > 0;
\* -1 when the result exceeds i32::MAX
RoundQuotient(x, s) ==
    IF x.m = 0 THEN 0
    ELSE IF x.e >= 0
        THEN LET d == ShiftDiv(x.m \div s, x.m % s, x.e, s)
             IN  IF d.q = -1 THEN -1
                 ELSE IF 2 * d.r >= s THEN (IF d.q = I32Max THEN -1 ELSE d.q + 1)
                 ELSE d.q
    ELSE IF -x.e > 25 THEN 0
    ELSE LET D == s * Pow2(-x.e)
         IN  (2 * x.m + D) \div (2 * D)

\* `(x / scale).round() as i32`: the cast saturates and maps NaN to 0
RoundDivI32(x, scale) ==
    LET s == IF scale < 0 THEN -scale ELSE scale
        neg == x.neg # (scale < 0)
    IN  IF x.cls = "nan" THEN 0
        ELSE IF x.cls = "inf" THEN (IF neg THEN I32Min ELSE I32Max)
        ELSE IF s = 0 THEN (IF x.m = 0 THEN 0 ELSE IF neg THEN I32Min ELSE I32Max)
        ELSE LET r == RoundQuotient(x, s)
             IN  IF r = -1 THEN (IF neg THEN I32Min ELSE I32Max)
                 ELSE IF neg THEN -r ELSE r

(***************************************************************************)
(* Tensor (core/src/tensor.rs) and CoreError (core/src/error.rs)           *)
(***************************************************************************)
DTypes == {"F32", "F16", "I8", "I4"}

Tensor(shape, dtype, data) == [shape |-> shape, dtype |-> dtype, data |-> data]
NoTensor == Tensor(<<>>, "none", <<>>)

Ok(t) == [tag |-> "Ok", val |-> t, expected |-> <<>>, actual |-> <<>>]
Err(kind) == [tag |-> kind, val |-> NoTensor, expected |-> <<>>, actual |-> <<>>]
ErrShapeMismatch(expected, actual) ==
    [tag |-> "ShapeMismatch", val |-> NoTensor, expected |-> expected, actual |-> actual]
\* the call did not return: the thread panicked
Panic == Err("panic")

size_bytes(dtype) ==
    CASE dtype = "F32" -> 4
      [] dtype = "F16" -> 2
      [] dtype = "I8" -> 1
      [] dtype = "I4" -> 1

\* shape.iter().product()
RECURSIVE product(_)
product(shape) == IF shape = <<>> THEN 1 ELSE Head(shape) * product(Tail(shape))

numel(t) == product(t.shape)

new(shape, dtype) ==
    LET size == product(shape) * size_bytes(dtype)
    IN  Tensor(shape, dtype, [i \in 1..size |-> 0])

\* from_data without the length check
from_data_unchecked(shape, dtype, data) == Ok(Tensor(shape, dtype, data))

from_data(shape, dtype, data) ==
    LET expected_size == product(shape) * size_bytes(dtype)
    IN  IF Len(data) # expected_size THEN Err("InvalidDimension")
        ELSE Ok(Tensor(shape, dtype, data))

\* from_f32 without the length check
from_f32_unchecked(shape, data) == Ok(Tensor(shape, "F32", FlattenF32(data)))

\* data: a sequence of floats
from_f32(shape, data) ==
    LET expected_size == product(shape)
    IN  IF Len(data) # expected_size THEN Err("InvalidDimension")
        ELSE Ok(Tensor(shape, "F32", FlattenF32(data)))

\* reshape comparing byte counts rather than element counts
reshape_by_bytes(self, new_shape) ==
    LET old_size == Len(self.data)
        new_size == product(new_shape)
    IN  IF old_size # new_size THEN ErrShapeMismatch(<<old_size>>, <<new_size>>)
        ELSE Ok(Tensor(new_shape, self.dtype, self.data))

reshape(self, new_shape) ==
    LET old_size == numel(self)
        new_size == product(new_shape)
    IN  IF old_size # new_size THEN ErrShapeMismatch(<<old_size>>, <<new_size>>)
        ELSE Ok(Tensor(new_shape, self.dtype, self.data))

\* bytemuck::cast_slice::<u8, f32> panics unless the buffer is 4-byte aligned and
\* a whole number of floats long.  A Vec<u8> that owns an allocation is aligned by
\* the allocator; an empty one holds the dangling address 1.
CastableToF32(data) == data # <<>> /\ Len(data) % 4 = 0

\* Result<&[f32]>: the floats, or the error tag
as_f32_slice(self) ==
    IF self.dtype # "F32" THEN [tag |-> "Other", floats |-> <<>>]
    ELSE IF ~CastableToF32(self.data) THEN [tag |-> "panic", floats |-> <<>>]
    ELSE [tag |-> "Ok", floats |-> FloatsOf(self.data)]

\* Result<&mut [f32]>: the same test and the same cast, through cast_slice_mut
as_f32_slice_mut(self) ==
    IF self.dtype # "F32" THEN [tag |-> "Other", floats |-> <<>>]
    ELSE IF ~CastableToF32(self.data) THEN [tag |-> "panic", floats |-> <<>>]
    ELSE [tag |-> "Ok", floats |-> FloatsOf(self.data)]

(***************************************************************************)
(* Quantization (core/src/quantization.rs)                                 *)
(***************************************************************************)
QuantParams(scale, zero_point, scheme) ==
    [scale |-> scale, zero_point |-> zero_point, scheme |-> scheme]

int8_symmetric(scale) == QuantParams(scale, 0, "Int8Symmetric")
int8_asymmetric(scale, zero_point) == QuantParams(scale, zero_point, "Int8Asymmetric")
int4(scale) == QuantParams(scale, 0, "Int4")

\* the closure of the Int8 arm: [ovf, val], val the i8 code
quantize_int8(x, params) ==
    LET q == AddI32(RoundDivI32(x, params.scale), params.zero_point)
    IN  [ovf |-> q.ovf, val |-> clamp(q.val, -128, 127)]

\* one 4-bit code, as an i8
quantize_int4(x, scale) == clamp(RoundDivI32(x, scale), -8, 7)

\* the loop of the Int4 arm: data.chunks(2), two codes per byte
RECURSIVE pack_int4(_, _)
pack_int4(data, scale) ==
    IF data = <<>> THEN <<>>
    ELSE LET q1 == quantize_int4(data[1], scale)
             q2 == IF Len(data) > 1 THEN quantize_int4(data[2], scale) ELSE 0
             packed_byte == OrI8(ShlI8(AndI8(q1, 15), 4), AndI8(q2, 15))
             rest == IF Len(data) > 2 THEN SubSeq(data, 3, Len(data)) ELSE <<>>
         IN  <<U8OfI8(packed_byte)>> \o pack_int4(rest, scale)

\* quantize_tensor without the dtype gate
quantize_tensor_ungated(t, params, build) ==
    LET data == as_f32_slice(t)
    IN  IF data.tag = "panic" THEN Panic
        ELSE IF data.tag # "Ok" THEN Err(data.tag)
        ELSE IF params.scheme \in {"Int8Symmetric", "Int8Asymmetric"}
            THEN LET quantized == [i \in 1..Len(data.floats) |->
                                       quantize_int8(data.floats[i], params)]
                     bytes == [i \in 1..Len(quantized) |-> U8OfI8(quantized[i].val)]
                 IN  IF build = "debug" /\ \E i \in 1..Len(quantized) : quantized[i].ovf
                         THEN Panic
                     ELSE from_data(t.shape, "I8", bytes)
        ELSE from_data(t.shape, "I4", pack_int4(data.floats, params.scale))

quantize_tensor(t, params, build) ==
    IF t.dtype # "F32" THEN Err("QuantizationError")
    ELSE LET data == as_f32_slice(t)
         IN  IF data.tag = "panic" THEN Panic
             ELSE IF data.tag # "Ok" THEN Err(data.tag)
             ELSE IF params.scheme \in {"Int8Symmetric", "Int8Asymmetric"}
                 THEN LET quantized == [i \in 1..Len(data.floats) |->
                                            quantize_int8(data.floats[i], params)]
                          bytes == [i \in 1..Len(quantized) |-> U8OfI8(quantized[i].val)]
                      IN  IF build = "debug" /\ \E i \in 1..Len(quantized) : quantized[i].ovf
                              THEN Panic
                          ELSE from_data(t.shape, "I8", bytes)
             ELSE from_data(t.shape, "I4", pack_int4(data.floats, params.scale))

\* the closure of the I8 arm: [ovf, val], val the float
dequantize_int8(byte, params) ==
    LET d == SubI32(I8OfU8(byte), params.zero_point)
    IN  [ovf |-> d.ovf, val |-> F32Mul(F32OfI32(d.val), params.scale)]

\* a nibble taken as unsigned: no sign extension
sign_extend_none(q) == q

\* sign extension from 4 to 8 bits
sign_extend(q) == IF AndI8(q, 8) # 0 THEN OrI8(q, -16) ELSE q

\* the loop of the I4 arm: two floats per byte, high nibble first
RECURSIVE unpack_int4(_, _)
unpack_int4(bytes, scale) ==
    IF bytes = <<>> THEN <<>>
    ELSE LET byte == Head(bytes)
             q1 == sign_extend(I8OfU8(BitAnd(byte \div 16, 15)))
             q2 == sign_extend(I8OfU8(BitAnd(byte, 15)))
         IN  <<F32Mul(F32OfI32(q1), scale), F32Mul(F32OfI32(q2), scale)>>
                 \o unpack_int4(Tail(bytes), scale)

\* Vec::truncate
truncate(v, len) == IF len < Len(v) THEN SubSeq(v, 1, len) ELSE v

dequantize_tensor(t, params, build) ==
    IF t.dtype = "I8"
        THEN LET data == [i \in 1..Len(t.data) |-> dequantize_int8(t.data[i], params)]
             IN  IF build = "debug" /\ \E i \in 1..Len(data) : data[i].ovf THEN Panic
                 ELSE from_f32(t.shape, [i \in 1..Len(data) |-> data[i].val])
    ELSE IF t.dtype = "I4"
        THEN from_f32(t.shape, truncate(unpack_int4(t.data, params.scale), numel(t)))
    ELSE Err("QuantizationError")

(***************************************************************************)
(* Transformer configuration (core/src/transformer.rs)                     *)
(***************************************************************************)
\* the fields estimate_size reads, and n_heads and max_seq_len
TransformerConfig(d_model, n_heads, n_layers, d_ff, vocab_size, max_seq_len) ==
    [d_model |-> d_model, n_heads |-> n_heads, n_layers |-> n_layers, d_ff |-> d_ff,
     vocab_size |-> vocab_size, max_seq_len |-> max_seq_len]

NoConfig == TransformerConfig(0, 0, 0, 0, 0, 0)

tiny == TransformerConfig(512, 8, 6, 2048, 32000, 512)

\* bytes of the f32 weights: the embedding and, per layer, the four attention
\* projections, the two feed-forward matrices and the two layer norms
estimate_size(self) ==
    LET embedding_size == self.vocab_size * self.d_model * 4
        per_layer_size ==
            (4 * self.d_model * self.d_model + 2 * self.d_model * self.d_ff
                + 4 * self.d_model) * 4
    IN  embedding_size + per_layer_size * self.n_layers

(***************************************************************************)
(* Devices (core/src/gpu.rs, backends/*/src/lib.rs)                        *)
(***************************************************************************)
DeviceTypes == {"Cpu", "WebGpu", "Vulkan", "Metal", "Dx12"}

KernelTypes ==
    {"MatMul", "LayerNorm", "Softmax", "Gelu", "FusedGemmGelu", "FusedGemmLayerNorm",
     "Attention"}

\* the build target: target_arch and target_os
Target(arch, os) == [arch |-> arch, os |-> os]
NoTarget == Target("none", "none")

Targets ==
    {Target("wasm32", "unknown"), Target("x86_64", "linux"), Target("aarch64", "macos"),
     Target("x86_64", "windows"), Target("aarch64", "ios"), Target("x86_64", "freebsd")}

\* the cfg-selected return statements, in their order
default_for_platform(t) ==
    IF t.arch = "wasm32" THEN "WebGpu"
    ELSE IF t.os = "macos" THEN "Metal"
    ELSE IF t.os = "windows" THEN "Dx12"
    ELSE IF t.os = "linux" THEN "Vulkan"
    ELSE "Cpu"

Device(type, name, available) == [type |-> type, name |-> name, available |-> available]
NoDevice == Device("none", "", FALSE)

\* the handle of a GpuTensor: Arc<dyn Any>, here the runtime type and the value
Handle(type, t, bytes) == [type |-> type, tensor |-> t, bytes |-> bytes]
GpuTensor(shape, handle) == [shape |-> shape, handle |-> handle]
NoGpuTensor == GpuTensor(<<>>, Handle("none", NoTensor, <<>>))

\* results of the calls on devices: Result<device>, Result<GpuTensor>, Result<Tensor>
DevOk(d) == [tag |-> "Ok", dev |-> d, gpu |-> NoGpuTensor, tensor |-> NoTensor]
GpuOk(g) == [tag |-> "Ok", dev |-> NoDevice, gpu |-> g, tensor |-> NoTensor]
HostOk(t) == [tag |-> "Ok", dev |-> NoDevice, gpu |-> NoGpuTensor, tensor |-> t]
DevErr(kind) == [tag |-> kind, dev |-> NoDevice, gpu |-> NoGpuTensor, tensor |-> NoTensor]

CpuDevice_new == Device("Cpu", "CPU", TRUE)

VulkanDevice_new(t) ==
    IF t.os = "linux" THEN DevOk(Device("Vulkan", "Vulkan", TRUE)) ELSE DevErr("GpuError")

MetalDevice_new(t) ==
    IF t.os = "macos" THEN DevOk(Device("Metal", "Metal", TRUE)) ELSE DevErr("GpuError")

Dx12Device_new(t) ==
    IF t.os = "windows" THEN DevOk(Device("Dx12", "DirectX 12", TRUE))
    ELSE DevErr("GpuError")

\* what the machine offers to wgpu: an adapter and a device, no adapter, or an
\* adapter that refuses the device
Environments == {"gpu", "no_adapter", "no_device"}

WebGpuDevice_new(env) ==
    IF env = "gpu" THEN DevOk(Device("WebGpu", "WebGPU", TRUE)) ELSE DevErr("GpuError")

\* Default::default(): new().unwrap_or_else(an unavailable device)
default(type, t) ==
    LET made == CASE type = "Vulkan" -> VulkanDevice_new(t)
                  [] type = "Metal" -> MetalDevice_new(t)
                  [] type = "Dx12" -> Dx12Device_new(t)
                  [] OTHER -> DevOk(CpuDevice_new)
        names == [Vulkan |-> "Vulkan (unavailable)", Metal |-> "Metal (unavailable)",
                  Dx12 |-> "DirectX 12 (unavailable)", Cpu |-> "CPU"]
    IN  IF made.tag = "Ok" THEN made.dev ELSE Device(type, names[type], FALSE)

is_available(d) == d.available

\* an upload that keeps a reference to the host buffer instead of copying it
upload_tensor_aliasing(d, t) ==
    GpuOk(GpuTensor(t.shape, Handle("Alias", NoTensor, <<>>)))

\* Cpu, Vulkan, Metal, Dx12: Arc::new(tensor.clone()); WebGpu: create_buffer_init
\* with the bytes of the tensor
upload_tensor(d, t) ==
    IF d.type = "WebGpu" THEN GpuOk(GpuTensor(t.shape, Handle("Buffer", NoTensor, t.data)))
    ELSE GpuOk(GpuTensor(t.shape, Handle("Tensor", t, <<>>)))

\* Kernel { kernel_type, params }
Kernel(kernel_type, params) == [kernel_type |-> kernel_type, params |-> params]
Kernel_new(kernel_type) == Kernel(kernel_type, <<>>)
with_params(kernel_type, params) == Kernel(kernel_type, params)

\* the kernels of CpuDevice: placeholders returning inputs[0].clone(); the two
\* with parameters read params.first() for the log only
run_matmul(inputs) == GpuOk(inputs[1])
run_layer_norm(inputs, params) == GpuOk(inputs[1])
run_softmax(inputs) == GpuOk(inputs[1])
run_gelu(inputs) == GpuOk(inputs[1])
run_fused_gemm_gelu(inputs) == GpuOk(inputs[1])

\* a fused kernel that insists on its epsilon
run_fused_gemm_layer_norm_strict(inputs, params) ==
    IF params = <<>> THEN DevErr("GpuError") ELSE GpuOk(inputs[1])

run_fused_gemm_layer_norm(inputs, params) == GpuOk(inputs[1])
run_attention(inputs) == GpuOk(inputs[1])

\* run_kernel without the is_empty test: inputs[0] is out of bounds
run_kernel_unchecked(d, kernel, inputs) ==
    IF inputs = <<>> THEN DevErr("panic") ELSE GpuOk(inputs[1])

\* the kernels of the other backends are placeholders returning inputs[0].clone()
run_kernel(d, kernel, inputs) ==
    IF inputs = <<>> THEN DevErr("GpuError")
    ELSE IF d.type = "Cpu"
        THEN CASE kernel.kernel_type = "MatMul" -> run_matmul(inputs)
               [] kernel.kernel_type = "LayerNorm" -> run_layer_norm(inputs, kernel.params)
               [] kernel.kernel_type = "Softmax" -> run_softmax(inputs)
               [] kernel.kernel_type = "Gelu" -> run_gelu(inputs)
               [] kernel.kernel_type = "FusedGemmGelu" -> run_fused_gemm_gelu(inputs)
               [] kernel.kernel_type = "FusedGemmLayerNorm" ->
                      run_fused_gemm_layer_norm(inputs, kernel.params)
               [] kernel.kernel_type = "Attention" -> run_attention(inputs)
    ELSE GpuOk(inputs[1])

\* Cpu: handle.downcast_ref::<Tensor>(); the other backends never look at the handle
download_tensor(d, g) ==
    IF d.type = "Cpu"
        THEN IF g.handle.type = "Tensor" THEN HostOk(g.handle.tensor)
             ELSE DevErr("GpuError")
    ELSE HostOk(new(g.shape, "F32"))

\* Result<()> of synchronize
UnitOk == DevOk(NoDevice)

\* synchronize: poll(Maintain::Wait) on WebGpu waits for the work in the device's
\* queue; the other backends return at once.  The result and the queue left.
synchronize(d, q) ==
    [result |-> UnitOk, queue |-> IF d.type = "WebGpu" THEN <<>> ELSE q]

\* a backend that hands the work to the queue and returns before it is done
complete_deferred(q, done, entry) == [queue |-> Append(q, entry), done |-> done]

\* upload_tensor, run_kernel and download_tensor do their work inside the call:
\* nothing is handed to the queue, the operation is done when the call returns
complete(q, done, entry) == [queue |-> q, done |-> Append(done, entry.op)]

\* a backend that marks itself unavailable while it is in use
shared_self_poisoned(d, op) == [d EXCEPT !.available = FALSE]

\* the device after a call: every method takes &self and no backend holds a
\* Cell, a Mutex or an atomic
shared_self(d, op) == d

Examples == {"simple-inference", "complete-workflow"}

\* create_device of the two examples.  simple-inference builds its runtime without
\* entering it, so Handle::current() panics; complete-workflow runs under
\* #[tokio::main] and compiles the accelerator arms only for their own target_os.
create_device(example, device_type, t, env) ==
    IF device_type = "Cpu" THEN DevOk(CpuDevice_new)
    ELSE IF device_type = "WebGpu"
        THEN IF example = "simple-inference" THEN DevErr("panic") ELSE WebGpuDevice_new(env)
    ELSE IF example = "simple-inference"
        THEN CASE device_type = "Vulkan" -> VulkanDevice_new(t)
               [] device_type = "Metal" -> MetalDevice_new(t)
               [] device_type = "Dx12" -> Dx12Device_new(t)
    ELSE IF device_type = "Vulkan" /\ t.os = "linux" THEN VulkanDevice_new(t)
    ELSE IF device_type = "Metal" /\ t.os = "macos" THEN MetalDevice_new(t)
    ELSE IF device_type = "Dx12" /\ t.os = "windows" THEN Dx12Device_new(t)
    ELSE DevOk(CpuDevice_new)

\* auto_detect_device that hands the failure of create_device to its caller
auto_detect_device_propagating(example, t, env) ==
    create_device(example, default_for_platform(t), t, env)

auto_detect_device(example, t, env) ==
    LET preferred == default_for_platform(t)
        created == create_device(example, preferred, t, env)
    IN  IF created.tag = "panic" THEN created
        ELSE IF created.tag = "Ok" /\ is_available(created.dev) THEN created
        ELSE DevOk(CpuDevice_new)

\* the constructor create_device calls for a device type: the type's own, or
\* CpuDevice::new() in the `_` arm of complete-workflow; none when the WebGpu arm
\* of simple-inference panics at Handle::current()
constructed_by(example, device_type, t) ==
    IF device_type = "WebGpu"
        THEN IF example = "simple-inference" THEN <<>> ELSE <<"WebGpu">>
    ELSE IF example = "simple-inference" \/ device_type = "Cpu" THEN <<device_type>>
    ELSE IF device_type = "Vulkan" /\ t.os = "linux" THEN <<"Vulkan">>
    ELSE IF device_type = "Metal" /\ t.os = "macos" THEN <<"Metal">>
    ELSE IF device_type = "Dx12" /\ t.os = "windows" THEN <<"Dx12">>
    ELSE <<"Cpu">>

\* an auto_detect_device that tries the preferred device a second time
constructions_retrying(example, t, env) ==
    LET preferred == default_for_platform(t)
        created == create_device(example, preferred, t, env)
        first == constructed_by(example, preferred, t)
    IN  IF created.tag = "panic" THEN first
        ELSE IF created.tag = "Ok" /\ is_available(created.dev) THEN first
        ELSE first \o first \o <<"Cpu">>

\* the constructors one auto_detect_device call runs, in their order
constructions(example, t, env) ==
    LET preferred == default_for_platform(t)
        created == create_device(example, preferred, t, env)
        first == constructed_by(example, preferred, t)
    IN  IF created.tag = "panic" THEN first
        ELSE IF created.tag = "Ok" /\ is_available(created.dev) THEN first
        ELSE Append(first, "Cpu")

(***************************************************************************)
(* Inputs of the calls                                                     *)
(***************************************************************************)
Dims == 0..MaxDim

\* shapes of rank 0, 1 and 2 holding at most MaxDim elements
Shapes ==
    {s \in {<<>>} \cup {<<a>> : a \in Dims} \cup {<<a, b>> : a \in Dims, b \in Dims} :
        product(s) <= MaxDim}

\* the floats handed to from_f32: -300.0, -3.0, 5.0
FloatVals == {F32OfI32(v) : v \in {-300, -3, 5}}

FloatSeqs == UNION {[1..n -> FloatVals] : n \in 0..MaxDim}

\* raw bytes: 0x78, 0x87
BytePool == {120, 135}

ByteStrings ==
    UNION {[1..n -> BytePool] : n \in 0..MaxBytes}
        \cup {FlattenF32(fs) : fs \in {f \in FloatSeqs : Len(f) <= 1}}

\* scale 1.0, 2.0
ScaleVals == {1, 2}
ZeroPoints == {100, I32Max, I32Min}

\* QuantParams written as struct literals (the fields are public): a zero_point
\* stored with a scheme that has none
LiteralParams == {QuantParams(1, 100, "Int8Symmetric"), QuantParams(2, 100, "Int4")}

Params ==
    {int8_symmetric(s) : s \in ScaleVals}
        \cup {int8_asymmetric(s, z) : s \in ScaleVals, z \in ZeroPoints}
        \cup {int4(s) : s \in ScaleVals}
        \cup LiteralParams

NoParams == QuantParams(0, 0, "none")

(***************************************************************************)
(* The caller                                                              *)
(***************************************************************************)
NoCall ==
    [op |-> "none", input |-> NoTensor, shape |-> <<>>, dtype |-> "none",
     bytes |-> <<>>, floats |-> <<>>, params |-> NoParams, packed |-> <<>>,
     origin |-> NoTensor, result |-> Err("none"), view |-> <<>>, chain |-> 0,
     config |-> NoConfig, size |-> 0]

NoDeviceCall ==
    [op |-> "none", device |-> NoDevice, example |-> "none", env |-> "none",
     preferred |-> "none", created |-> DevErr("none"), kernel |-> "none",
     params |-> <<>>, inputs |-> <<>>, after |-> <<>>, arg |-> NoGpuTensor, host |-> NoTensor, written |-> FALSE,
     built |-> <<>>, result |-> DevErr("none")]

Init ==
    /\ tensor = NoTensor
    /\ call = NoCall
    /\ target = NoTarget
    /\ device = NoDevice
    /\ gpu = NoGpuTensor
    /\ dcall = NoDeviceCall
    /\ threads = <<>>
    /\ queue = <<>>

\* Each run is one test: construct a tensor, then make one call on it (and, after a
\* quantize, the dequantize of its result).
Start == call.op = "none"
Constructed == call.op \in {"new", "from_data", "from_f32", "rebind"} /\ tensor # NoTensor

\* let tensor = Tensor::new(shape, dtype);
New(shape, dtype) ==
    /\ Start
    /\ call' = [NoCall EXCEPT !.op = "new", !.shape = shape, !.dtype = dtype,
                              !.result = Ok(new(shape, dtype))]
    /\ tensor' = call'.result.val
    /\ UNCHANGED gpuvars

\* let tensor = Tensor::from_data(shape, dtype, bytes)?;
FromData(shape, dtype, bytes) ==
    /\ Start
    /\ call' = [NoCall EXCEPT !.op = "from_data", !.shape = shape, !.dtype = dtype,
                              !.bytes = bytes, !.result = from_data(shape, dtype, bytes)]
    /\ tensor' = call'.result.val
    /\ UNCHANGED gpuvars

\* let tensor = Tensor::from_f32(shape, floats)?;
FromF32(shape, floats) ==
    /\ Start
    /\ call' = [NoCall EXCEPT !.op = "from_f32", !.shape = shape, !.floats = floats,
                              !.result = from_f32(shape, floats)]
    /\ tensor' = call'.result.val
    /\ UNCHANGED gpuvars

\* let reshaped = tensor.reshape(new_shape);
Reshape(new_shape) ==
    /\ Constructed
    /\ call' = [NoCall EXCEPT !.op = "reshape", !.chain = call.chain, !.input = tensor,
                              !.shape = new_shape,
                              !.result = reshape(tensor, new_shape)]
    /\ UNCHANGED <<tensor, gpuvars>>

\* let quantized = quantize_tensor(&tensor, &params);
Quantize(params, build) ==
    /\ Constructed
    /\ call' = [NoCall EXCEPT
                   !.op = "quantize", !.chain = call.chain, !.input = tensor,
                   !.params = params,
                   !.packed = IF params.scheme = "Int4" /\ as_f32_slice(tensor).tag = "Ok"
                                  THEN pack_int4(as_f32_slice(tensor).floats, params.scale)
                              ELSE <<>>,
                   !.result = quantize_tensor(tensor, params, build)]
    /\ UNCHANGED <<tensor, gpuvars>>

\* let dequantized = dequantize_tensor(&tensor, &params);
Dequantize(params, build) ==
    /\ Constructed
    /\ call' = [NoCall EXCEPT !.op = "dequantize", !.chain = call.chain, !.input = tensor,
                              !.params = params,
                              !.result = dequantize_tensor(tensor, params, build)]
    /\ UNCHANGED <<tensor, gpuvars>>

\* let dequantized = dequantize_tensor(&quantized, &params);  after a quantize that
\* returned Ok(quantized), with the same params
DequantizeQuantized(build) ==
    /\ call.op = "quantize"
    /\ call.result.tag = "Ok"
    /\ call' = [NoCall EXCEPT !.op = "roundtrip", !.chain = call.chain,
                              !.input = call.result.val,
                              !.params = call.params, !.origin = call.input,
                              !.result = dequantize_tensor(call.result.val, call.params, build)]
    /\ UNCHANGED <<tensor, gpuvars>>

\* let requantized = quantize_tensor(&dequantized, &params);  after a dequantize
\* that returned Ok(dequantized), with the same params
QuantizeDequantized(build) ==
    /\ call.op = "dequantize"
    /\ call.result.tag = "Ok"
    /\ call' = [NoCall EXCEPT !.op = "requantize", !.chain = call.chain,
                              !.input = call.result.val,
                              !.params = call.params, !.origin = call.input,
                              !.result = quantize_tensor(call.result.val, call.params, build)]
    /\ UNCHANGED <<tensor, gpuvars>>

\* let floats = tensor.as_f32_slice();  or  tensor.as_f32_slice_mut();
\* the floats of the view are kept in call.view
AsF32Slice(mutable) ==
    /\ Constructed
    /\ LET slice == IF mutable THEN as_f32_slice_mut(tensor) ELSE as_f32_slice(tensor)
       IN  call' = [NoCall EXCEPT
                       !.op = IF mutable THEN "as_f32_slice_mut" ELSE "as_f32_slice",
                       !.chain = call.chain, !.input = tensor,
                       !.result = IF slice.tag = "Ok" THEN Ok(NoTensor) ELSE Err(slice.tag),
                       !.view = slice.floats]
    /\ UNCHANGED <<tensor, gpuvars>>

\* let tensor = <the tensor the last call returned>;
Rebind ==
    /\ call.op \in {"reshape", "quantize", "dequantize", "roundtrip"}
    /\ call.result.tag = "Ok"
    /\ call.chain < MaxChain
    /\ call' = [NoCall EXCEPT !.op = "rebind", !.chain = call.chain + 1]
    /\ tensor' = call.result.val
    /\ UNCHANGED gpuvars

\* let size = config.estimate_size();
EstimateSize(config) ==
    /\ Start
    /\ call' = [NoCall EXCEPT !.op = "estimate_size", !.config = config,
                              !.size = estimate_size(config)]
    /\ UNCHANGED <<tensor, gpuvars>>

\* the configuration of the examples and the test, and shallower ones
Configs == {[tiny EXCEPT !.n_layers = n] : n \in {0, 1, 6}}

Next ==
    \/ Start /\ \E config \in Configs : EstimateSize(config)
    \/ Start /\ \E shape \in Shapes, dtype \in DTypes : New(shape, dtype)
    \/ Start /\ \E shape \in Shapes, dtype \in DTypes, bytes \in ByteStrings :
           FromData(shape, dtype, bytes)
    \/ Start /\ \E shape \in Shapes, floats \in FloatSeqs : FromF32(shape, floats)
    \/ Constructed /\ \E new_shape \in Shapes : Reshape(new_shape)
    \/ Constructed /\ \E params \in Params, build \in Builds : Quantize(params, build)
    \/ Constructed /\ \E params \in Params, build \in Builds : Dequantize(params, build)
    \/ \E build \in Builds : DequantizeQuantized(build)
    \/ \E build \in Builds : QuantizeDequantized(build)
    \/ Constructed /\ \E mutable \in BOOLEAN : AsF32Slice(mutable)
    \/ Rebind

Spec == Init /\ [][Next]_vars

(***************************************************************************)
(* The caller of the devices (examples/, backends/cpu tests)               *)
(***************************************************************************)
\* the program is built for one target
InitGpu ==
    /\ tensor = NoTensor
    /\ call = NoCall
    /\ target \in Targets
    /\ device = NoDevice
    /\ gpu = NoGpuTensor
    /\ dcall = NoDeviceCall
    /\ threads = <<>>
    /\ queue = <<>>

HasDevice == device # NoDevice
HasTensor == tensor # NoTensor
HasGpuTensor == gpu # NoGpuTensor

\* let device = CpuDevice::new();  VulkanDevice::new()?;  WebGpuDevice::new().await?;
NewDevice(device_type, env) ==
    LET made == CASE device_type = "Cpu" -> DevOk(CpuDevice_new)
                  [] device_type = "WebGpu" -> WebGpuDevice_new(env)
                  [] device_type = "Vulkan" -> VulkanDevice_new(target)
                  [] device_type = "Metal" -> MetalDevice_new(target)
                  [] device_type = "Dx12" -> Dx12Device_new(target)
    IN  /\ dcall' = [NoDeviceCall EXCEPT !.op = "new_device", !.env = env, !.result = made]
        /\ device' = IF made.tag = "Ok" THEN made.dev ELSE device
        /\ UNCHANGED <<tensor, call, target, gpu, threads, queue>>

\* let device = VulkanDevice::default();
DefaultDevice(device_type) ==
    /\ dcall' = [NoDeviceCall EXCEPT !.op = "default_device",
                                     !.result = DevOk(default(device_type, target))]
    /\ device' = default(device_type, target)
    /\ UNCHANGED <<tensor, call, target, gpu, threads, queue>>

\* let device = auto_detect_device()?;
AutoDetectDevice(example, env) ==
    LET found == auto_detect_device(example, target, env)
    IN  /\ dcall' = [NoDeviceCall EXCEPT
                        !.op = "auto_detect_device", !.example = example, !.env = env,
                        !.preferred = default_for_platform(target),
                        !.created = create_device(example, default_for_platform(target),
                                                  target, env),
                        !.built = constructions(example, target, env),
                        !.result = found]
        /\ device' = IF found.tag = "Ok" THEN found.dev ELSE device
        /\ UNCHANGED <<tensor, call, target, gpu, threads, queue>>

\* let gpu_tensor = device.upload_tensor(&tensor)?;
UploadTensor ==
    /\ HasDevice /\ HasTensor
    /\ dcall' = [NoDeviceCall EXCEPT !.op = "upload_tensor", !.device = device,
                                     !.host = tensor,
                                     !.result = upload_tensor(device, tensor)]
    /\ gpu' = dcall'.result.gpu
    /\ UNCHANGED <<tensor, call, target, device, threads, queue>>

\* a GpuTensor the caller puts together: the fields are public
ForeignGpuTensor(shape) ==
    /\ dcall' = [NoDeviceCall EXCEPT !.op = "foreign"]
    /\ gpu' = GpuTensor(shape, Handle("Other", NoTensor, <<>>))
    /\ UNCHANGED <<tensor, call, target, device, threads, queue>>

\* let output = device.run_kernel(kernel, inputs);  and the output is kept
\* (inputs is a shared borrow: the slice is the same after the call)
RunKernel(kernel, inputs) ==
    /\ HasDevice
    /\ dcall' = [NoDeviceCall EXCEPT !.op = "run_kernel", !.device = device,
                                     !.kernel = kernel.kernel_type,
                                     !.params = kernel.params,
                                     !.inputs = inputs, !.after = inputs,
                                     !.result = run_kernel(device, kernel, inputs)]
    /\ gpu' = IF dcall'.result.tag = "Ok" THEN dcall'.result.gpu ELSE gpu
    /\ UNCHANGED <<tensor, call, target, device, threads, queue>>

\* let output = device.download_tensor(&gpu_tensor);
DownloadTensor ==
    /\ HasDevice /\ HasGpuTensor
    /\ dcall' = [NoDeviceCall EXCEPT !.op = "download_tensor", !.device = device,
                                     !.arg = gpu, !.host = tensor,
                                     !.result = download_tensor(device, gpu)]
    /\ UNCHANGED <<tensor, call, target, device, gpu, threads, queue>>

\* the caller overwrites the first byte of the host buffer after an upload
\* (Tensor::data is a public field); a test does so once
WriteHost ==
    /\ dcall.op = "upload_tensor"
    /\ ~dcall.written
    /\ tensor = call.result.val
    /\ tensor.data # <<>>
    /\ tensor' = [tensor EXCEPT !.data[1] = (@ + 1) % 256]
    /\ dcall' = [dcall EXCEPT !.written = TRUE]
    /\ UNCHANGED <<call, target, device, gpu, threads, queue>>

\* the tensors the examples and the backend tests move to a device: one or two
\* elements, zero-filled or holding data
HostShapes == {s \in Shapes : Len(s) = 1 /\ product(s) \in 1..2}
HostFloats == {f \in FloatSeqs : Len(f) = 1}
HostBytes == {b \in ByteStrings : Len(b) = 2 /\ b[1] # b[2]}

\* run_kernel is handed no tensor, the tensor the caller holds, or that tensor
\* and a second one of another shape
SecondInput == GpuTensor(<<3>>, Handle("Other", NoTensor, <<>>))
KernelInputs == {<<>>} \cup (IF HasGpuTensor THEN {<<gpu>>, <<gpu, SecondInput>>} ELSE {})

\* Kernel::new(kernel_type) and Kernel::with_params with a one-element vector
Kernels ==
    {Kernel_new(kernel_type) : kernel_type \in KernelTypes}
        \cup {with_params(kernel_type, <<F32OfI32(0)>>) : kernel_type \in KernelTypes}

NextGpu ==
    \/ Start /\ \E shape \in HostShapes : New(shape, "F32")
    \/ Start /\ \E bytes \in HostBytes : FromData(<<2>>, "I8", bytes)
    \/ Start /\ \E floats \in HostFloats : FromF32(<<1>>, floats)
    \/ \E device_type \in DeviceTypes, env \in Environments : NewDevice(device_type, env)
    \/ \E device_type \in DeviceTypes \ {"WebGpu"} : DefaultDevice(device_type)
    \/ \E example \in Examples, env \in Environments : AutoDetectDevice(example, env)
    \/ UploadTensor
    \/ \E shape \in HostShapes : ForeignGpuTensor(shape)
    \/ HasDevice /\ \E kernel \in Kernels, inputs \in KernelInputs :
           RunKernel(kernel, inputs)
    \/ DownloadTensor
    \/ WriteHost

SpecGpu == InitGpu /\ [][NextGpu]_vars

(***************************************************************************)
(* Threads sharing one device (GpuDevice: Send + Sync)                     *)
(***************************************************************************)
Threads == 1..NumThreads

\* run_inference of the examples: upload, kernel, download, synchronize
Program == <<"upload_tensor", "run_kernel", "download_tensor", "synchronize">>

\* the input of thread t: Tensor::from_f32(vec![1, 1], vec![t as f32])
HostOf(t) == from_f32(<<1, 1>>, <<F32OfI32(t)>>).val

NoThread ==
    [pc |-> "idle", at |-> 1, kernel |-> "none", held |-> NoGpuTensor,
     results |-> <<>>, issued |-> <<>>, done |-> <<>>]

InitThreads ==
    /\ tensor = NoTensor
    /\ call = NoCall
    /\ target \in Targets
    /\ device = NoDevice
    /\ gpu = NoGpuTensor
    /\ dcall = NoDeviceCall
    /\ threads = [t \in Threads |-> NoThread]
    /\ queue = <<>>

\* let device: Arc<dyn GpuDevice> = ...; made once, then shared
ShareDevice(device_type, env, by_default) ==
    /\ device = NoDevice
    /\ IF by_default THEN device_type # "WebGpu" /\ DefaultDevice(device_type)
       ELSE NewDevice(device_type, env)

\* thread t enters the next call of its program
Invoke(t, kernel_type) ==
    /\ HasDevice
    /\ threads[t].pc = "idle"
    /\ threads[t].at <= Len(Program)
    /\ threads' = [threads EXCEPT ![t] =
           [@ EXCEPT !.pc = "calling",
                     !.kernel = IF Program[threads[t].at] = "run_kernel"
                                  THEN kernel_type ELSE @,
                     !.issued = Append(@, Program[threads[t].at])]]
    /\ UNCHANGED <<tensor, call, target, device, gpu, dcall, queue>>

\* the operations of thread u that leave the queue when it is waited for
Drained(q, u) ==
    LET mine == SelectSeq(q, LAMBDA entry : entry.thread = u)
    IN  [i \in 1..Len(mine) |-> mine[i].op]

\* the call of thread t runs on the shared device and returns
Return(t) ==
    /\ threads[t].pc = "calling"
    /\ LET me == threads[t]
           op == Program[me.at]
           result == CASE op = "upload_tensor" -> upload_tensor(device, HostOf(t))
                       [] op = "run_kernel" -> run_kernel(device, Kernel_new(me.kernel), <<me.held>>)
                       [] op = "download_tensor" -> download_tensor(device, me.held)
                       [] op = "synchronize" -> synchronize(device, queue).result
           work == IF op = "synchronize"
                   THEN [queue |-> synchronize(device, queue).queue,
                         done |-> Append(me.done \o Drained(queue, t), op)]
                   ELSE complete(queue, me.done, [thread |-> t, op |-> op])
       IN  /\ threads' = [u \in Threads |->
                  IF u = t
                  THEN [me EXCEPT !.pc = "idle", !.at = @ + 1,
                                  !.held = IF op \in {"upload_tensor", "run_kernel"}
                                               /\ result.tag = "Ok"
                                           THEN result.gpu ELSE @,
                                  !.results = Append(@, result),
                                  !.done = work.done]
                  ELSE IF op = "synchronize" /\ work.queue # queue
                       THEN [threads[u] EXCEPT !.done = @ \o Drained(queue, u)]
                       ELSE threads[u]]
           /\ queue' = work.queue
           /\ device' = shared_self(device, op)
    /\ UNCHANGED <<tensor, call, target, gpu, dcall>>

\* the kernels a thread picks from: one without and one with parameters
ThreadKernels == {"MatMul", "LayerNorm"}

NextThreads ==
    \/ \E device_type \in DeviceTypes, env \in Environments, by_default \in BOOLEAN :
           ShareDevice(device_type, env, by_default)
    \/ \E t \in Threads, kernel_type \in ThreadKernels : Invoke(t, kernel_type)
    \/ \E t \in Threads : Return(t)

SpecThreads == InitThreads /\ [][NextThreads]_vars

(***************************************************************************)
(* Exact values of floats, for the properties of the quantization engine   *)
(***************************************************************************)
\* |x| < 2^Exp2(x), and |x| >= 2^(Exp2(x) - 1) unless x is zero
Exp2(x) == BitLen(x.m) + x.e

IsZero(x) == x.cls = "fin" /\ x.m = 0
\* 0 < |x| < 1/2: rounds to 0 under every scale >= 1
IsTiny(x) == x.cls = "fin" /\ x.m # 0 /\ Exp2(x) <= -1
\* |x| >= 2^40: x / scale is beyond every integer range used here
IsHuge(x) == x.cls = "fin" /\ Exp2(x) > 40

\* m * 2^e in lowest terms: [n, d] with value n / d
RECURSIVE Lowest(_, _)
Lowest(m, e) ==
    IF e >= 0 THEN [n |-> m * Pow2(e), d |-> 1]
    ELSE IF m % 2 = 0 THEN Lowest(m \div 2, e + 1)
    ELSE [n |-> m, d |-> Pow2(-e)]

\* the signed value n / d of a float that is neither tiny nor huge
Rational(x) ==
    IF x.m = 0 THEN [n |-> 0, d |-> 1]
    ELSE LET l == Lowest(x.m, x.e)
         IN  [n |-> IF x.neg THEN -l.n ELSE l.n, d |-> l.d]

Abs(v) == IF v < 0 THEN -v ELSE v

\* round(x / scale), half away from zero, for a scale >= 1:
\* [big, neg, val]; big when the quotient is beyond the integers used here
Round(x, scale) ==
    IF IsZero(x) \/ IsTiny(x) THEN [big |-> FALSE, neg |-> x.neg, val |-> 0]
    ELSE IF IsHuge(x) THEN [big |-> TRUE, neg |-> x.neg, val |-> 0]
    ELSE LET v == Rational(x)
             r == (2 * Abs(v.n) + v.d * scale) \div (2 * v.d * scale)
         IN  [big |-> FALSE, neg |-> x.neg, val |-> IF x.neg THEN -r ELSE r]

\* clamp(round(x / scale) + offset, lo, hi) over the integers, for lo < 0 < hi
ClampedCode(x, scale, offset, lo, hi) ==
    LET r == Round(x, scale)
    IN  IF r.big THEN (IF r.neg THEN lo ELSE hi)
        ELSE IF offset > 0 /\ r.val > hi - offset THEN hi
        ELSE IF offset < 0 /\ r.val < lo - offset THEN lo
        ELSE clamp(r.val + offset, lo, hi)

\* the floats the exact-value operators cover: zero, tiny, huge, and the integers
\* below 2^29 in magnitude
Covered(x) ==
    /\ x.cls = "fin"
    /\ \/ IsZero(x) \/ IsTiny(x) \/ IsHuge(x)
       \/ Exp2(x) <= 29 /\ Lowest(x.m, x.e).d = 1

\* |x - y| <= bound, for an integer bound >= 1
Within(x, y, bound) ==
    IF x.cls # "fin" \/ y.cls # "fin" THEN FALSE
    ELSE IF IsHuge(x) \/ IsHuge(y) THEN IsHuge(x) /\ IsHuge(y) /\ x = y
    ELSE IF (IsZero(x) \/ IsTiny(x)) /\ (IsZero(y) \/ IsTiny(y)) THEN TRUE
    ELSE IF IsTiny(x) \/ IsTiny(y)
        THEN LET t == IF IsTiny(x) THEN x ELSE y
                 o == Rational(IF IsTiny(x) THEN y ELSE x)
             IN  \/ Abs(o.n) + o.d <= bound * o.d
                 \/ Abs(o.n) <= bound * o.d /\ t.neg = (o.n < 0)
    ELSE LET a == Rational(x)
             b == Rational(y)
         IN  Abs(a.n * b.d - b.n * a.d) <= bound * a.d * b.d

(***************************************************************************)
(* Properties of Tensor                                                    *)
(***************************************************************************)
\* the byte-width rule of the data model: product * 4, * 2, * 1, and two
\* elements per byte, rounded up, for I4
ByteLength(shape, dtype) ==
    CASE dtype = "F32" -> product(shape) * 4
      [] dtype = "F16" -> product(shape) * 2
      [] dtype = "I8" -> product(shape)
      [] dtype = "I4" -> (product(shape) + 1) \div 2

\* C1: Tensor::new(shape, dtype) returns a zero-filled tensor of that shape and dtype
\* whose data length follows the byte-width rule, I4 packed two elements per byte.
C1_NewByteLength ==
    call.op = "new" =>
        /\ call.result.tag = "Ok"
        /\ call.result.val.shape = call.shape
        /\ call.result.val.dtype = call.dtype
        /\ Len(call.result.val.data) = ByteLength(call.shape, call.dtype)
        /\ \A i \in 1..Len(call.result.val.data) : call.result.val.data[i] = 0

\* C9: Tensor::from_data fails with InvalidDimension exactly when the byte count
\* differs from the byte-width rule, and otherwise returns the given shape, dtype
\* and bytes.
C9_FromDataChecksByteLength ==
    call.op = "from_data" =>
        IF Len(call.bytes) # ByteLength(call.shape, call.dtype)
            THEN call.result.tag = "InvalidDimension"
        ELSE call.result = Ok(Tensor(call.shape, call.dtype, call.bytes))

\* C10: reshape succeeds iff the element counts agree; on success the result has
\* the new shape, the same dtype, the same bytes and the same numel; on failure it
\* is ShapeMismatch carrying [old count] and [new count]; the source is unchanged.
C10_Reshape ==
    call.op = "reshape" =>
        /\ call.result.tag = "Ok" <=> product(call.shape) = numel(call.input)
        /\ call.result.tag = "Ok" =>
               /\ call.result.val.shape = call.shape
               /\ call.result.val.dtype = call.input.dtype
               /\ call.result.val.data = call.input.data
               /\ numel(call.result.val) = numel(call.input)
        /\ call.result.tag # "Ok" =>
               /\ call.result.tag = "ShapeMismatch"
               /\ call.result.expected = <<numel(call.input)>>
               /\ call.result.actual = <<product(call.shape)>>
        /\ tensor = call.input

\* a reshape of three elements into another shape succeeded
C10_Witness ==
    /\ call.op = "reshape"
    /\ call.result.tag = "Ok"
    /\ numel(call.input) = 3
    /\ call.shape # call.input.shape
    /\ call.input.data # <<>>

\* a reshape to a different element count was refused
C10_WitnessMismatch ==
    /\ call.op = "reshape"
    /\ call.result.tag = "ShapeMismatch"
    /\ call.result.expected # call.result.actual

\* C11: Tensor::from_f32 fails with InvalidDimension exactly when the number of
\* floats differs from product(shape); otherwise the result has the given shape,
\* dtype F32 and 4 * product(shape) bytes encoding the floats in order.
C11_FromF32 ==
    call.op = "from_f32" =>
        IF Len(call.floats) # product(call.shape)
            THEN call.result.tag = "InvalidDimension" /\ tensor = NoTensor
        ELSE /\ call.result.tag = "Ok"
             /\ call.result.val.shape = call.shape
             /\ call.result.val.dtype = "F32"
             /\ Len(call.result.val.data) = 4 * product(call.shape)
             /\ \A i \in 1..Len(call.floats) :
                    SubSeq(call.result.val.data, 4 * i - 3, 4 * i) = F32Bytes(call.floats[i])
             /\ tensor = call.result.val

\* three floats were accepted for a shape of rank 2; the second one is -300.0
C11_Witness ==
    /\ call.op = "from_f32"
    /\ call.result.tag = "Ok"
    /\ Len(call.shape) = 2
    /\ Len(call.floats) = 3
    /\ SubSeq(call.result.val.data, 5, 8) = <<0, 0, 150, 195>>

\* data.len() == product(shape) * byteWidth(dtype) for the unpacked dtypes
WellSized(t) ==
    t.dtype \in {"F32", "F16", "I8"} => Len(t.data) = product(t.shape) * ByteLength(<<1>>, t.dtype)

\* C12: every F32, F16 or I8 tensor produced by a sequence of successful new,
\* from_data, from_f32, reshape, quantize_tensor and dequantize_tensor calls holds
\* product(shape) * byteWidth(dtype) bytes (byteWidth 4, 2 and 1).
C12_TensorInvariant ==
    /\ WellSized(tensor)
    /\ call.result.tag = "Ok" => WellSized(call.result.val)

\* the fourth call of a sequence: a tensor returned by an earlier call was quantized
\* to three I8 codes and decoded again
C12_Witness ==
    /\ call.op = "roundtrip"
    /\ call.chain = 1
    /\ call.input.dtype = "I8"
    /\ call.result.tag = "Ok"
    /\ call.result.val.dtype = "F32"
    /\ numel(call.result.val) = 3
    /\ call.origin = tensor

(***************************************************************************)
(* Properties of the quantization engine                                   *)
(***************************************************************************)
QuantizeF32(schemes) ==
    /\ call.op = "quantize"
    /\ call.input.dtype = "F32"
    /\ call.params.scheme \in schemes

RoundTrip(schemes) == call.op = "roundtrip" /\ call.params.scheme \in schemes

\* the i-th float of an F32 tensor
ElementF32(t, i) == F32OfBytes(SubSeq(t.data, 4 * i - 3, 4 * i))

\* every float of the F32 tensor t is one the exact-value operators cover
FloatsCovered(t) == \A i \in 1..numel(t) : Covered(ElementF32(t, i))

\* every element of the F32 tensor t is within bound of the same element of origin
ElementsWithin(t, origin, bound) ==
    \A i \in 1..numel(origin) :
        /\ 4 * i <= Len(t.data)
        /\ 4 * i <= Len(origin.data)
        /\ Within(ElementF32(t, i), ElementF32(origin, i), bound)

\* C2: quantize_tensor with scheme Int4 succeeds on every F32 tensor and returns an
\* I4 tensor of the same shape holding ceil(numel / 2) bytes
C2_Int4QuantizeSucceeds ==
    QuantizeF32({"Int4"}) =>
        /\ call.result.tag = "Ok"
        /\ call.result.val.dtype = "I4"
        /\ call.result.val.shape = call.input.shape
        /\ Len(call.result.val.data) = (numel(call.input) + 1) \div 2

\* C3: the Int4 round trip succeeds on every F32 tensor, decodes exactly numel
\* floats, and every decoded float is within |scale| of the original
C3_Int4RoundTrip ==
    /\ QuantizeF32({"Int4"}) => call.result.tag = "Ok"
    /\ (RoundTrip({"Int4"}) /\ FloatsCovered(call.origin)) =>
           /\ call.result.tag = "Ok"
           /\ Len(call.result.val.data) = 4 * numel(call.origin)
           /\ ElementsWithin(call.result.val, call.origin, call.params.scale)

\* C4: the Int8Symmetric round trip of every F32 tensor has the shape of the
\* original and dtype F32, and every element is within |scale| of the original
C4_Int8SymmetricRoundTrip ==
    /\ QuantizeF32({"Int8Symmetric"}) => call.result.tag = "Ok"
    /\ (RoundTrip({"Int8Symmetric"}) /\ FloatsCovered(call.origin)) =>
           /\ call.result.tag = "Ok"
           /\ call.result.val.shape = call.origin.shape
           /\ call.result.val.dtype = "F32"
           /\ ElementsWithin(call.result.val, call.origin, call.params.scale)

\* the 4-bit code clamp(round(x / scale), -8, 7), masked to a nibble
NibbleOf(x, scale) == (ClampedCode(x, scale, 0, -8, 7) + 16) % 16

\* byte i of the Int4 layout over the floats of t
PackedByte(t, scale, i) ==
    LET q1 == NibbleOf(ElementF32(t, 2 * i - 1), scale)
        q2 == IF 2 * i <= numel(t) THEN NibbleOf(ElementF32(t, 2 * i), scale) ELSE 0
    IN  q1 * 16 + q2

\* C5: quantize_tensor with scheme Int4 emits, for each consecutive pair (a, b) of
\* floats, the byte ((q1 & 0xF) << 4) | (q2 & 0xF) with q = clamp(round(x / scale), -8, 7),
\* and q2 = 0 when the last pair has one element
C5_Int4PackingLayout ==
    (QuantizeF32({"Int4"}) /\ FloatsCovered(call.input)) =>
        /\ call.result.tag = "Ok"
        /\ Len(call.result.val.data) = (numel(call.input) + 1) \div 2
        /\ \A i \in 1..Len(call.result.val.data) :
               call.result.val.data[i] = PackedByte(call.input, call.params.scale, i)

\* C6: quantize_tensor with an Int8 scheme returns, for every F32 tensor, an I8 tensor
\* of the same shape whose i-th byte is clamp(round(x / scale) + zero_point, -128, 127),
\* rounding half away from zero and saturating
C6_Int8QuantizationFormula ==
    (QuantizeF32({"Int8Symmetric", "Int8Asymmetric"}) /\ FloatsCovered(call.input)) =>
        /\ call.result.tag = "Ok"
        /\ call.result.val.dtype = "I8"
        /\ call.result.val.shape = call.input.shape
        /\ Len(call.result.val.data) = numel(call.input)
        /\ \A i \in 1..Len(call.result.val.data) :
               call.result.val.data[i] =
                   U8OfI8(ClampedCode(ElementF32(call.input, i), call.params.scale,
                                      call.params.zero_point, -128, 127))

DequantizeOf(dtype) ==
    /\ call.op \in {"dequantize", "roundtrip"}
    /\ call.input.dtype = dtype

\* an unsigned nibble as a signed 4-bit value
SignedNibble(n) == IF n < 8 THEN n ELSE n - 16

\* the i-th float decoded from an I4 tensor: high nibble first, then low
DecodedI4(t, scale, i) ==
    LET byte == t.data[(i + 1) \div 2]
        n == IF i % 2 = 1 THEN byte \div 16 ELSE byte % 16
    IN  F32OfI32(SignedNibble(n) * scale)

\* C7: dequantize_tensor of an I4 tensor decodes each byte as high nibble then low
\* nibble, maps nibble n to n if n < 8 and to n - 16 otherwise, multiplies by scale,
\* and returns exactly numel floats
C7_Int4Dequantization ==
    DequantizeOf("I4") =>
        /\ call.result.tag = "Ok"
        /\ call.result.val.dtype = "F32"
        /\ call.result.val.shape = call.input.shape
        /\ Len(call.result.val.data) = 4 * numel(call.input)
        /\ \A i \in 1..numel(call.input) :
               SubSeq(call.result.val.data, 4 * i - 3, 4 * i)
                   = F32Bytes(DecodedI4(call.input, call.params.scale, i))

\* byte 0x87 under scale 1.0 decodes to -8.0 then 7.0, and the floats of the second
\* byte are cut off
C7_Witness ==
    /\ call.op = "dequantize"
    /\ call.input.dtype = "I4"
    /\ call.input.data = <<135, 120>>
    /\ call.params.scale = 1
    /\ call.result.tag = "Ok"
    /\ call.result.val.data = FlattenF32(<<F32OfI32(-8), F32OfI32(7)>>)

\* (q - zero_point) as a float, q and zero_point taken as integers
DifferenceF32(q, zero_point) ==
    IF SubI32(q, zero_point).ovf THEN Fin(q < zero_point, 8388608, 8)
    ELSE F32OfI32(q - zero_point)

\* C8: dequantize_tensor of an I8 tensor returns an F32 tensor of the same shape
\* whose i-th element is (q_i - zero_point) * scale, q_i the i-th byte as an i8
C8_Int8Dequantization ==
    DequantizeOf("I8") =>
        /\ call.result.tag = "Ok"
        /\ call.result.val.dtype = "F32"
        /\ call.result.val.shape = call.input.shape
        /\ Len(call.result.val.data) = 4 * Len(call.input.data)
        /\ \A i \in 1..Len(call.input.data) :
               SubSeq(call.result.val.data, 4 * i - 3, 4 * i)
                   = F32Bytes(F32Mul(DifferenceF32(I8OfU8(call.input.data[i]),
                                                   call.params.zero_point),
                                     call.params.scale))

\* C13: quantize_tensor returns QuantizationError for every tensor whose dtype is not
\* F32, whatever the scheme; dequantize_tensor returns QuantizationError for every
\* tensor whose dtype is neither I8 nor I4; no tensor is produced and the input is
\* unchanged.
C13_DtypeGating ==
    /\ (call.op = "quantize" /\ call.input.dtype # "F32") =>
           call.result = Err("QuantizationError") /\ tensor = call.input
    /\ (call.op \in {"dequantize", "roundtrip"} /\ call.input.dtype \notin {"I8", "I4"}) =>
           call.result = Err("QuantizationError") /\ tensor = call.input

\* an I8 tensor of three codes was refused by quantize_tensor under an Int8 scheme
C13_Witness ==
    /\ call.op = "quantize"
    /\ call.input.dtype = "I8"
    /\ Len(call.input.data) = 3
    /\ call.params.scheme = "Int8Asymmetric"
    /\ call.result.tag = "QuantizationError"

\* an F16 tensor was refused by dequantize_tensor
C13_WitnessDequantize ==
    /\ call.op = "dequantize"
    /\ call.input.dtype = "F16"
    /\ call.input.data # <<>>
    /\ call.result.tag = "QuantizationError"

\* C14: as_f32_slice and as_f32_slice_mut fail with CoreError::Other exactly when the
\* dtype is not F32, and otherwise return a view of numel() floats over the bytes of
\* the tensor.
C14_AsF32Slice ==
    call.op \in {"as_f32_slice", "as_f32_slice_mut"} =>
        IF call.input.dtype # "F32" THEN call.result.tag = "Other"
        ELSE /\ call.result.tag = "Ok"
             /\ Len(call.view) = numel(call.input)
             /\ \A i \in 1..Len(call.view) :
                    F32Bytes(call.view[i]) = SubSeq(call.input.data, 4 * i - 3, 4 * i)


(***************************************************************************)
(* Devices                                                                 *)
(***************************************************************************)
\* C15: on every backend and for every kernel type, run_kernel called with an
\* empty input sequence returns Err(GpuError): it neither panics nor returns a
\* tensor.
C15_RunKernelEmptyInputs ==
    (dcall.op = "run_kernel" /\ dcall.inputs = <<>>) =>
        /\ dcall.result = DevErr("GpuError")
        /\ dcall.result.gpu = NoGpuTensor

\* an accelerator backend has refused a FusedGemmGelu kernel without inputs
C15_Witness ==
    /\ dcall.op = "run_kernel"
    /\ dcall.inputs = <<>>
    /\ dcall.device.type = "Metal"
    /\ dcall.kernel = "FusedGemmGelu"
    /\ dcall.result.tag = "GpuError"

\* the host tensors whose upload to the device of the call gives the GpuTensor
\* handed to download_tensor
UploadedTensors ==
    {t \in {tensor, call.result.val} :
        t # NoTensor /\ upload_tensor(dcall.device, t) = GpuOk(dcall.arg)}

\* C16: on every backend, download_tensor(upload_tensor(t)) succeeds and returns a
\* tensor with the shape, the dtype and the bytes of t.
C16_UploadDownloadRoundTrip ==
    dcall.op = "download_tensor" =>
        \A t \in UploadedTensors :
            /\ dcall.result.tag = "Ok"
            /\ dcall.result.tensor.shape = t.shape
            /\ dcall.result.tensor.dtype = t.dtype
            /\ dcall.result.tensor.data = t.data

\* the runtime type a backend puts behind the handles it makes
ExpectedHandle(d) == upload_tensor(d, NoTensor).gpu.handle.type

\* C17: on every backend, download_tensor fails with a GpuError whenever the
\* runtime type behind the handle is not the one the backend expects, for
\* instance when the handle was made by another backend.
C17_DownloadForeignHandle ==
    (dcall.op = "download_tensor" /\ dcall.arg.handle.type # ExpectedHandle(dcall.device)) =>
        dcall.result = DevErr("GpuError")

\* the bytes a GpuTensor holds on the device: those of the cloned tensor, those
\* the buffer was initialised with, or, were the handle a reference, those of the
\* host buffer
Resident(g) ==
    CASE g.handle.type = "Tensor" -> g.handle.tensor.data
      [] g.handle.type = "Buffer" -> g.handle.bytes
      [] g.handle.type = "Alias" -> tensor.data
      [] OTHER -> <<>>

\* C18: on every backend upload_tensor returns a GpuTensor with exactly the shape
\* of the source tensor and leaves the source tensor unchanged, and the copy on
\* the device is independent of the host buffer: it keeps the uploaded bytes when
\* the host buffer is overwritten afterwards.
C18_UploadCopies ==
    dcall.op = "upload_tensor" =>
        /\ dcall.result = GpuOk(gpu)
        /\ gpu.shape = dcall.host.shape
        /\ ~dcall.written => tensor = dcall.host
        /\ Resident(gpu) = dcall.host.data

\* a tensor was uploaded to the WebGpu backend and the host buffer overwritten
C18_Witness ==
    /\ dcall.op = "upload_tensor"
    /\ dcall.device.type = "WebGpu"
    /\ dcall.written
    /\ tensor.data # dcall.host.data
    /\ Resident(gpu) = dcall.host.data
    /\ gpu.shape = <<2>>

\* C19: when the construction of the platform's default device fails with an
\* error, or the constructed device reports is_available() = false,
\* auto_detect_device returns Ok with a Cpu device whose is_available() is true;
\* the failure does not reach the caller.
C19_FallbackToCpu ==
    (/\ dcall.op = "auto_detect_device"
     /\ \/ dcall.created.tag = "GpuError"
        \/ dcall.created.tag = "Ok" /\ ~is_available(dcall.created.dev)) =>
        /\ dcall.result.tag = "Ok"
        /\ dcall.result.dev.type = "Cpu"
        /\ is_available(dcall.result.dev)
        /\ device = dcall.result.dev

\* the WebGpu device of a WASM build found no adapter and the Cpu device was chosen
C19_Witness ==
    /\ dcall.op = "auto_detect_device"
    /\ dcall.preferred = "WebGpu"
    /\ dcall.env = "no_adapter"
    /\ dcall.created.tag = "GpuError"
    /\ dcall.result = DevOk(CpuDevice_new)
    /\ device.type = "Cpu"

\* the targets of Apple's platforms
Apple(t) == t.os \in {"macos", "ios"}

\* C20: default_for_platform returns one device type as a function of the build
\* target: WebGpu for a WASM target, otherwise Metal on Apple, Dx12 on Windows,
\* Vulkan on Linux, and Cpu for any other target.
C20_DefaultForPlatform ==
    dcall.op = "auto_detect_device" =>
        dcall.preferred =
            IF target.arch = "wasm32" THEN "WebGpu"
            ELSE IF Apple(target) THEN "Metal"
            ELSE IF target.os = "windows" THEN "Dx12"
            ELSE IF target.os = "linux" THEN "Vulkan"
            ELSE "Cpu"

(***************************************************************************)
(* Panics, threads, ordering                                               *)
(***************************************************************************)
\* C21: no core operation panics for data the caller supplies: new, from_data,
\* from_f32, reshape, as_f32_slice, quantize_tensor and dequantize_tensor return a
\* value or a CoreError for every input, zero-sized shapes, bad dtypes and
\* extreme quantization parameters included.
C21_NoPanic ==
    call.op \in {"new", "from_data", "from_f32", "reshape", "as_f32_slice",
                 "as_f32_slice_mut", "quantize", "dequantize", "roundtrip"} =>
        call.result.tag # "panic"

\* the device as it was made and shared
SharedDevice == dcall.result.dev

\* what the program of thread t returns, call by call, when it runs alone on
\* device d with kernel k
AloneResult(d, t, k, i) ==
    LET uploaded == upload_tensor(d, HostOf(t))
        output == run_kernel(d, Kernel_new(k), <<uploaded.gpu>>)
        downloaded == download_tensor(d, output.gpu)
    IN  CASE i = 1 -> uploaded
          [] i = 2 -> output
          [] i = 3 -> downloaded
          [] i = 4 -> UnitOk

C23_SynchronizeOrdering ==
    \A t \in DOMAIN threads :
        LET me == threads[t]
        IN  (me.at = Len(Program) + 1) =>
                /\ me.results[Len(Program)] = UnitOk
                /\ me.issued = Program
                /\ me.done = me.issued
                /\ \A i \in 1..Len(queue) : queue[i].thread # t
                /\ device = SharedDevice
                /\ me.held = me.results[2].gpu

\* a thread has synchronized with the WebGpu device after its three operations
C23_Witness ==
    /\ DOMAIN threads = Threads
    /\ device.type = "WebGpu"
    /\ threads[1].at = Len(Program) + 1
    /\ threads[1].done = Program
    /\ threads[1].results[4] = UnitOk

(***************************************************************************)
(* Model size                                                              *)
(***************************************************************************)
\* C24: TransformerConfig::tiny().estimate_size() is
\* 4*vocab_size*d_model + n_layers*4*(4*d_model*d_model + 2*d_model*d_ff + 4*d_model)
\* and lies in the range of about 50 MB: above 40,000,000 and below 100,000,000.
C24_TinyEstimateSize ==
    (call.op = "estimate_size" /\ call.config = tiny) =>
        LET c == call.config
        IN  /\ call.size = 4 * c.vocab_size * c.d_model
                    + c.n_layers * 4 * (4 * c.d_model * c.d_model
                                           + 2 * c.d_model * c.d_ff + 4 * c.d_model)
            /\ call.size > 40000000
            /\ call.size < 100000000

(***************************************************************************)
(* Device selection                                                        *)
(***************************************************************************)
\* C25: one call of auto_detect_device constructs the preferred device at most
\* once and then the Cpu device at most once, in that order: there is no retry and
\* no device of a third type is constructed.
C25_OneShotFallback ==
    dcall.op = "auto_detect_device" =>
        \/ dcall.built = <<>>
        \/ dcall.built = <<dcall.preferred>>
        \/ /\ dcall.built = <<dcall.preferred, "Cpu">>
           /\ dcall.preferred # "Cpu"
           /\ dcall.created.tag # "Ok" \/ ~is_available(dcall.created.dev)

\* the WebGpu device could not be made and the Cpu device was made after it
C25_Witness ==
    /\ dcall.op = "auto_detect_device"
    /\ dcall.example = "complete-workflow"
    /\ dcall.env = "no_device"
    /\ dcall.built = <<"WebGpu", "Cpu">>
    /\ device = CpuDevice_new

\* C28: auto_detect_device never returns Err, and every device it returns reports
\* is_available() = true, whether the preferred device was made and is available,
\* was made and is unavailable, or could not be made.
C28_AutoDetectAvailable ==
    dcall.op = "auto_detect_device" =>
        /\ dcall.result.tag \in {"Ok", "panic"}
        /\ dcall.result.tag = "Ok" =>
               /\ is_available(dcall.result.dev)
               /\ device = dcall.result.dev
               /\ dcall.result.dev.type \in {dcall.preferred, "Cpu"}

\* the preferred Vulkan device of a Linux build was made and returned
C28_Witness ==
    /\ dcall.op = "auto_detect_device"
    /\ target.os = "linux"
    /\ dcall.created = DevOk(Device("Vulkan", "Vulkan", TRUE))
    /\ dcall.result = dcall.created
    /\ is_available(device)

\* the WebGpu device of a WASM build could not be made, and the call returned the
\* Cpu device
C28_WitnessFallback ==
    /\ dcall.op = "auto_detect_device"
    /\ dcall.created.tag = "GpuError"
    /\ dcall.result.tag = "Ok"
    /\ is_available(device)
    /\ device.type = "Cpu"

(***************************************************************************)
(* Zero point and re-quantization                                          *)
(***************************************************************************)
\* the same parameters with the zero point cleared
ZeroPointCleared(params) == [params EXCEPT !.zero_point = 0]

\* C26: for QuantParams of scheme Int8Symmetric or Int4 the results of
\* quantize_tensor and dequantize_tensor do not depend on the stored zero_point:
\* the call returns what it returns with the zero point cleared.
C26_ZeroPointIgnored ==
    (/\ call.op \in {"quantize", "dequantize"}
     /\ call.params.scheme \in {"Int8Symmetric", "Int4"}) =>
        \E build \in Builds :
            call.result =
                IF call.op = "quantize"
                THEN quantize_tensor(call.input, ZeroPointCleared(call.params), build)
                ELSE dequantize_tensor(call.input, ZeroPointCleared(call.params), build)

\* C29: re-quantization is the identity on Int8 codes: for every I8 tensor q and
\* Int8 parameters p, symmetric or asymmetric, with scale > 0 and zero_point in
\* [-128, 127], quantize_tensor(dequantize_tensor(q, p), p) returns a tensor with
\* the shape and the bytes of q.
C29_Requantization ==
    (/\ call.op = "requantize"
     /\ call.origin.dtype = "I8"
     /\ call.params.scheme \in {"Int8Symmetric", "Int8Asymmetric"}
     /\ call.params.scale > 0
     /\ call.params.zero_point \in -128..127) =>
        /\ call.result.tag = "Ok"
        /\ call.result.val.dtype = "I8"
        /\ call.result.val.shape = call.origin.shape
        /\ call.result.val.data = call.origin.data

\* C30: in Int8 quantization the i32 sum of the saturated round(x / scale) and
\* zero_point never overflows: for every element of a quantized F32 tensor and
\* every Int8 parameters the addition of the closure stays within i32.
C30_NoIntermediateOverflow ==
    (/\ call.op \in {"quantize", "requantize"}
     /\ call.params.scheme \in {"Int8Symmetric", "Int8Asymmetric"}
     /\ call.input.dtype = "F32"
     /\ as_f32_slice(call.input).tag = "Ok") =>
        \A i \in 1..Len(as_f32_slice(call.input).floats) :
            ~quantize_int8(as_f32_slice(call.input).floats[i], call.params).ovf

\* C27: on the Cpu backend, for each of the seven kernel types, every parameter
\* vector (the empty one included) and every non-empty input sequence,
\* run_kernel returns Ok with a GpuTensor whose shape is that of inputs[0] (it
\* is the clone of inputs[0]) and leaves the inputs as they were.
C27_CpuDispatchTotal ==
    (/\ dcall.op = "run_kernel"
     /\ dcall.device.type = "Cpu"
     /\ dcall.kernel \in KernelTypes
     /\ dcall.inputs # <<>>) =>
        /\ dcall.result.tag = "Ok"
        /\ dcall.result.gpu # NoGpuTensor
        /\ dcall.result.gpu.shape = dcall.inputs[1].shape
        /\ dcall.result.gpu = dcall.inputs[1]
        /\ dcall.after = dcall.inputs

C27_Witness ==
    /\ dcall.op = "run_kernel"
    /\ dcall.device.type = "Cpu"
    /\ dcall.kernel = "FusedGemmLayerNorm"
    /\ dcall.params = <<>>
    /\ Len(dcall.inputs) = 2
    /\ dcall.inputs[1].shape # dcall.inputs[2].shape
    /\ dcall.result.tag = "Ok"
    /\ dcall.result.gpu.shape = dcall.inputs[1].shape
====
